---- MODULE Spec2Model ----
(***************************************************************************)
(* Model of the concurrent execution core of the Necromancer ZOMBIE        *)
(* interpreter: src/src/necro/mod.rs (Necromancer, Ritual),                *)
(* src/src/necro/summon.rs (Spirit), src/src/necro/state.rs (State) and    *)
(* src/src/value.rs (Value).                                               *)
(***************************************************************************)
EXTENDS Integers, Sequences, FiniteSets, TLC

(***************************************************************************)
(* Bounds of the model.                                                    *)
(***************************************************************************)
\* upper bound on the number of runners (Spirits) spawned during one ritual
MaxRunners == 4

\* the Say messages a run may send: the unbounded channel and output are cut off
MaxSays == 10

(***************************************************************************)
(* Value (src/src/value.rs).                                               *)
(***************************************************************************)
\* i64::MAX and i64::MIN scaled to a width the model checker can compute in
IntMax == 255
IntMin == -IntMax - 1

Integer(n) == [tag |-> "Integer", v |-> n]
String(s) == [tag |-> "String", v |-> s]
Boolean(b) == [tag |-> "Boolean", v |-> b]
Evil(s) == [tag |-> "Evil", v |-> s]
Void == [tag |-> "Void", v |-> 0]

\* the random tokens Value::corrupted can draw (7..=13 alphanumeric chars)
Tokens == {"x7Kq2mPa", "Zr81bbQ0t"}

\* impl Display for Value
Display(val) ==
    CASE val.tag = "Integer" -> ToString(val.v)
      [] val.tag = "String" -> val.v
      [] val.tag = "Boolean" -> (IF val.v THEN "true" ELSE "false")
      [] val.tag = "Evil" -> val.v
      [] OTHER -> ""

\* a decoration that is also put around the empty text
curse_framed(text) == "~" \o text \o "~"

\* Value::curse: zalgo puts combining marks at every character of the text, so
\* the empty text stays empty
curse(text) == IF text = "" THEN "" ELSE "~" \o text \o "~"

\* Value::corrupted with the random text tok
corrupted(tok) == Evil(curse(tok))

\* Value::corrupt
corrupt(val) == Evil(curse(Display(val)))

\* an equality that compares only the variants
ValEq_variant(a, b) == a.tag = b.tag

\* derived PartialEq of Value: same variant and same payload
ValEq(a, b) == a.tag = b.tag /\ a.v = b.v

\* impl Add<&Value> for Value
Add(a, b, tok) ==
    CASE a.tag = "Integer" /\ b.tag = "Integer" ->
            (IF a.v + b.v > IntMax \/ a.v + b.v < IntMin
             THEN corrupted(tok) ELSE Integer(a.v + b.v))
      [] a.tag = "String" /\ b.tag = "String" -> String(a.v \o b.v)
      [] a.tag = "String" /\ b.tag = "Integer" -> String(a.v \o ToString(b.v))
      [] a.tag = "String" /\ b.tag = "Boolean" -> String(a.v \o Display(b))
      [] a.tag = "Integer" /\ b.tag = "String" -> String(ToString(a.v) \o b.v)
      [] a.tag = "Boolean" /\ b.tag = "String" -> String(Display(a) \o b.v)
      [] a.tag = "Evil" -> Evil(a.v \o Display(corrupt(b)))
      [] b.tag = "Evil" -> Evil(b.v \o Display(corrupt(a)))
      [] a.tag = "Void" -> b
      [] b.tag = "Void" -> a
      [] OTHER -> corrupted(tok)

\* i64 division truncates toward zero
TruncDiv(a, b) ==
    IF (a >= 0) = (b > 0) THEN (IF a >= 0 THEN a ELSE -a) \div (IF b > 0 THEN b ELSE -b)
    ELSE -((IF a >= 0 THEN a ELSE -a) \div (IF b > 0 THEN b ELSE -b))

\* impl Div<&Value> for &Value (checked_div: None on /0 and on MIN / -1)
Div(a, b, tok) ==
    CASE a.tag = "Integer" /\ b.tag = "Integer" ->
            (IF b.v = 0 \/ (a.v = IntMin /\ b.v = -1)
             THEN corrupted(tok) ELSE Integer(TruncDiv(a.v, b.v)))
      [] a.tag = "Void" -> b
      [] b.tag = "Void" -> a
      [] OTHER -> corrupted(tok)

\* impl Neg for &Value (checked_neg: None on MIN)
Neg(a, tok) ==
    CASE a.tag = "Integer" -> (IF a.v = IntMin THEN corrupted(tok) ELSE Integer(-a.v))
      [] a.tag = "Void" -> Void
      [] OTHER -> corrupted(tok)

(***************************************************************************)
(* Scroll model (src/src/scroll): expressions, statements, tasks, entities.*)
(***************************************************************************)
\* Option::None of a statement or expression target
None == ""

\* Expr variants
EMoan(t) == [op |-> "Moan", t |-> t]
ERemembering(t, val) == [op |-> "Remembering", t |-> t, v |-> val]
ERend == [op |-> "Rend"]
ETurn == [op |-> "Turn"]
EValue(val) == [op |-> "Value", v |-> val]

\* Stmt variants
Animate(t) == [op |-> "Animate", t |-> t]
Banish(t) == [op |-> "Banish", t |-> t]
Disturb(t) == [op |-> "Disturb", t |-> t]
Forget(t) == [op |-> "Forget", t |-> t]
Invoke(t) == [op |-> "Invoke", t |-> t]
Remember(t, exprs) == [op |-> "Remember", t |-> t, e |-> exprs]
Say(t, exprs) == [op |-> "Say", t |-> t, e |-> exprs]
ShambleUntil(cond, stmts) == [op |-> "ShambleUntil", c |-> cond, b |-> stmts]
ShambleAround(stmts) == [op |-> "ShambleAround", b |-> stmts]
Stumble == [op |-> "Stumble"]
Taste(cond, stmts1, stmts2) == [op |-> "Taste", c |-> cond, b |-> stmts1, b2 |-> stmts2]

\* Task::new
Task(name, active, stmts) == [name |-> name, active |-> active, stmts |-> stmts]

\* Entity::summon
Entity(species, active, memory, tasks) ==
    [species |-> species, active |-> active, memory |-> memory, tasks |-> tasks]

\* an activity in which Vampire, Demon and Djinn are active with any closing spell
ParseActive_any(species, spell) ==
    \/ species = "Zombie" /\ spell = "animate"
    \/ species = "Ghost" /\ spell = "disturb"
    \/ species \in {"Vampire", "Demon", "Djinn"}

\* impl Parse for Entity: the initial activity from species and closing spell
ParseActive(species, spell) ==
    \/ species = "Zombie" /\ spell = "animate"
    \/ species = "Ghost" /\ spell = "disturb"
    \/ species = "Vampire" /\ spell = "bind"
    \/ species = "Demon" /\ spell = "bind"
    \/ species = "Djinn" /\ spell = "bind"

(***************************************************************************)
(* The scrolls the model runs (one is picked at startup).                  *)
(***************************************************************************)
\* spec 8.2 scenario 1: hello world
ScrollHello ==
    [Peter |-> Entity("Zombie", ParseActive("Zombie", "animate"), Void,
        <<Task("Greet", TRUE, <<Say(None, <<EValue(String("Hello World"))>>)>>)>>)]

\* spec 8.2 scenario 4: banish self
ScrollBanishSelf ==
    [P |-> Entity("Zombie", ParseActive("Zombie", "animate"), Void,
        <<Task("T", TRUE, <<Say(None, <<EValue(Integer(1))>>), Banish(None),
                            Say(None, <<EValue(Integer(2))>>)>>)>>)]

\* spec 8.2 scenario 5: ghost woken by disturb
ScrollGhost ==
    [G |-> Entity("Ghost", ParseActive("Ghost", "bind"), Void,
        <<Task("T", TRUE, <<Say(None, <<EValue(String("boo"))>>)>>)>>),
     Z |-> Entity("Zombie", ParseActive("Zombie", "animate"), Void,
        <<Task("T", TRUE, <<Disturb("G"), Banish(None)>>)>>)]

\* two active zombies, one banishing and re-animating the other
ScrollRace ==
    [A |-> Entity("Zombie", ParseActive("Zombie", "animate"), Void,
        <<Task("T", TRUE, <<Say(None, <<EValue(Integer(1))>>)>>)>>),
     B |-> Entity("Zombie", ParseActive("Zombie", "animate"), Void,
        <<Task("T", TRUE, <<Banish("A"), Animate("A")>>)>>)]

\* an active zombie invoking a copy of an (always active) vampire
ScrollInvoke ==
    [W |-> Entity("Vampire", ParseActive("Vampire", "bind"), Integer(40),
        <<Task("T", TRUE, <<Remember(None, <<EMoan(None), EValue(Integer(2))>>)>>)>>),
     Z |-> Entity("Zombie", ParseActive("Zombie", "animate"), Void,
        <<Task("T", TRUE, <<Invoke("W")>>)>>)]

\* an active ghost sending messages that do not match the target's species,
\* and a demon (whose runner dies in unleash)
ScrollMix ==
    [H |-> Entity("Ghost", ParseActive("Ghost", "disturb"), Void,
        <<Task("T", TRUE, <<Banish("D"), Disturb("D"), Animate(None), Banish("D")>>)>>),
     D |-> Entity("Demon", ParseActive("Demon", "bind"), Void,
        <<Task("T", TRUE, <<Forget(None)>>)>>)]

\* spec 8.2 scenario: one zombie saying 1, 2, 3
ScrollSayOrder ==
    [Q |-> Entity("Zombie", ParseActive("Zombie", "animate"), Void,
        <<Task("T", TRUE, <<Say(None, <<EValue(Integer(1))>>),
                            Say(None, <<EValue(Integer(2))>>),
                            Say(None, <<EValue(Integer(3))>>)>>)>>)]

\* a zombie with three tasks: the first stumbles between two says, the second
\* stumbles inside a Taste branch, the third says 3
ScrollStumble ==
    [S |-> Entity("Zombie", ParseActive("Zombie", "animate"), Void,
        <<Task("T1", TRUE, <<Say(None, <<EValue(Integer(1))>>), Stumble,
                             Say(None, <<EValue(Integer(2))>>)>>),
          Task("T2", TRUE, <<Taste(ERemembering(None, Void),
                                   <<Stumble, Say(None, <<EValue(Integer(9))>>)>>, <<>>),
                             Say(None, <<EValue(Integer(4))>>)>>),
          Task("T3", TRUE, <<Say(None, <<EValue(Integer(3))>>)>>)>>)]

\* a zombie whose first task stumbles inside a ShambleAround body
ScrollShamble ==
    [L |-> Entity("Zombie", ParseActive("Zombie", "animate"), Void,
        <<Task("T1", TRUE, <<ShambleAround(<<Remember(None, <<EValue(Integer(1))>>),
                                             Stumble, Forget(None)>>)>>),
          Task("T2", TRUE, <<Say(None, <<EValue(String("out"))>>)>>)>>)]

\* a zombie counting its memory up inside a ShambleUntil body that stumbles
ScrollUntil ==
    [U |-> Entity("Zombie", ParseActive("Zombie", "animate"), Integer(0),
        <<Task("T1", TRUE, <<ShambleUntil(ERemembering(None, Integer(3)),
                                <<Remember(None, <<EMoan(None), EValue(Integer(1))>>),
                                  Stumble>>)>>)>>)]

\* a zombie whose first task tastes a condition that is no Boolean
ScrollTaste ==
    [N |-> Entity("Zombie", ParseActive("Zombie", "animate"), Void,
        <<Task("T1", TRUE, <<Taste(EValue(Integer(1)),
                                   <<Say(None, <<EValue(String("yes"))>>)>>,
                                   <<Say(None, <<EValue(String("no"))>>)>>),
                             Say(None, <<EValue(String("after"))>>)>>),
          Task("T2", TRUE, <<Say(None, <<EValue(String("later"))>>)>>)>>)]

\* a zombie whose statements name an entity the scroll does not declare, and a
\* second zombie saying hi
ScrollUnknown ==
    [X |-> Entity("Zombie", ParseActive("Zombie", "animate"), Void,
        <<Task("T", TRUE, <<Banish("Nobody"), Invoke("Nobody")>>)>>),
     Y |-> Entity("Zombie", ParseActive("Zombie", "animate"), Void,
        <<Task("T", TRUE, <<Say(None, <<EValue(String("hi"))>>)>>)>>)]

\* a zombie that invokes a vampire, says x and shambles around for ever; the
\* vampire shambles around for ever as well
ScrollBlock ==
    [K |-> Entity("Zombie", ParseActive("Zombie", "animate"), Void,
        <<Task("T", TRUE, <<Invoke("V"), Say(None, <<EValue(String("x"))>>),
                            ShambleAround(<<Forget(None)>>)>>)>>),
     V |-> Entity("Vampire", ParseActive("Vampire", "bind"), Void,
        <<Task("T", TRUE, <<ShambleAround(<<Forget(None)>>)>>)>>)]

\* a zombie whose first task is declared inactive (closed with bind)
ScrollBound ==
    [J |-> Entity("Zombie", ParseActive("Zombie", "animate"), Void,
        <<Task("T1", FALSE, <<Say(None, <<EValue(String("no"))>>)>>),
          Task("T2", TRUE, <<Say(None, <<EValue(String("yes"))>>)>>)>>)]

\* a vampire with two tasks
ScrollVampire ==
    [M |-> Entity("Vampire", ParseActive("Vampire", "bind"), Void,
        <<Task("T1", TRUE, <<Say(None, <<EValue(String("a"))>>)>>),
          Task("T2", TRUE, <<Say(None, <<EValue(String("b"))>>)>>)>>)]

\* spec 8.2 scenario 6 and parse/tests.rs fibonacci: two inactive helper zombies
\* and the zombie F that shambles until it remembers 100
ScrollFibonacci ==
    [Zombie1 |-> Entity("Zombie", ParseActive("Zombie", "bind"), Integer(1), <<>>),
     Zombie2 |-> Entity("Zombie", ParseActive("Zombie", "bind"), Integer(1), <<>>),
     F |-> Entity("Zombie", ParseActive("Zombie", "animate"), Integer(0),
        <<Task("SayFibs", TRUE,
            <<ShambleUntil(ERemembering(None, Integer(100)),
                <<Say(None, <<EMoan("Zombie1")>>),
                  Say(None, <<EMoan("Zombie2")>>),
                  Remember("Zombie1", <<EMoan("Zombie1"), EMoan("Zombie2")>>),
                  Remember("Zombie2", <<EMoan("Zombie1"), EMoan("Zombie2")>>),
                  Remember(None, <<EMoan("Zombie2")>>)>>)>>)>>)]

\* an active zombie animating another zombie that is active already
ScrollAwake ==
    [A |-> Entity("Zombie", ParseActive("Zombie", "animate"), Void,
        <<Task("T", TRUE, <<Say(None, <<EValue(Integer(1))>>)>>)>>),
     B |-> Entity("Zombie", ParseActive("Zombie", "animate"), Void,
        <<Task("T", TRUE, <<Animate("A")>>)>>)]

\* a zombie whose ShambleUntil condition is true when the loop is entered
ScrollUntilTrue ==
    [Y |-> Entity("Zombie", ParseActive("Zombie", "animate"), Integer(3),
        <<Task("T1", TRUE, <<ShambleUntil(ERemembering(None, Integer(3)),
                                <<Say(None, <<EValue(String("body"))>>)>>),
                             Say(None, <<EValue(String("left"))>>)>>)>>)]

\* a single active demon with one task
ScrollDemon ==
    [D |-> Entity("Demon", ParseActive("Demon", "bind"), Void,
        <<Task("T", TRUE, <<Say(None, <<EValue(String("d"))>>)>>)>>)]

Scrolls ==
    {ScrollDemon, ScrollUntilTrue, ScrollAwake, ScrollHello, ScrollBanishSelf, ScrollGhost, ScrollRace, ScrollInvoke, ScrollMix,
     ScrollSayOrder, ScrollStumble, ScrollShamble, ScrollUntil, ScrollTaste,
     ScrollUnknown, ScrollBlock, ScrollBound, ScrollVampire}

(***************************************************************************)
(* State.                                                                  *)
(***************************************************************************)
VARIABLES
    scroll,         \* Necromancer.scroll: the (immutable) program
    knowledge,      \* State.knowledge: name -> SpiritState {memory, active}
    runners,        \* the spawned Spirits (unleash tasks), by runner id
    candles,        \* Ritual.candles: name -> the Arc kept as key of the set
    abort_handles,  \* Ritual.abort_handles: runner ids in push order
    aborted,        \* runner ids whose AbortHandle::abort was called
    tasks,          \* Ritual.tasks: runner ids whose Abortable future is in the set
    lock,           \* the RwLock around Ritual.tasks: free / write / granted
    channel,        \* the unbounded mpsc channel of Messages
    output,         \* lines printed by println!
    ritual_pc,      \* position of Necromancer::initiate
    watchdog_pc,    \* the watchdog task: running / aborted
    handler_pc,     \* the message_handler task
    pending,        \* runner id the message_handler is about to push to tasks
    probe           \* the last application of a Value operation or of the
                    \* evaluator to drawn inputs (used by ValueSpec only)

vars == <<scroll, knowledge, runners, candles, abort_handles, aborted, tasks, lock,
          channel, output, ritual_pc, watchdog_pc, handler_pc, pending, probe>>

\* the variables of the ritual
ritual_vars == <<scroll, knowledge, runners, candles, abort_handles, aborted, tasks,
                 lock, channel, output, ritual_pc, watchdog_pc, handler_pc, pending>>

\* no operation has been applied
NoProbe == [op |-> "none"]

Names == DOMAIN scroll
RunnerIds == 1..Len(runners)

\* Message variants
MAnimate(n) == [kind |-> "Animate", arg |-> n]
MDisturb(n) == [kind |-> "Disturb", arg |-> n]
MInvoke(n) == [kind |-> "Invoke", arg |-> n]
MSay(val) == [kind |-> "Say", arg |-> val]

(***************************************************************************)
(* Expression evaluator (Spirit::eval_exprs, eval_standalone_expr,         *)
(* eval_expr).  A stack is a non-empty sequence of Values; the empty       *)
(* sequence stands for a panic (unwrap on None).                           *)
(***************************************************************************)
Panic == <<>>

\* Option<SmolStr> target: None is the runner's own entity
Target(t, self) == IF t = None THEN self ELSE t

\* get_value: the memory of name, unwrap panics on an undeclared name
get_value(kn, name) == kn[name].memory

\* a read that moves the memory out of the entry and leaves the default behind
knowledge_after_take(kn, name) == [kn EXCEPT ![name].memory = Void]

\* the knowledge after get_value: DashMap::get hands out a shared reference to
\* the entry and memory().clone() copies the value, the entry stays as it is
knowledge_after_get(kn, name) == kn

Top(stack) == stack[Len(stack)]
Pop(stack) == SubSeq(stack, 1, Len(stack) - 1)
SetTop(stack, val) == [stack EXCEPT ![Len(stack)] = val]

\* Spirit::eval_expr
eval_expr(kn, self, expr, stack, tok) ==
    IF stack = Panic THEN Panic
    ELSE CASE expr.op = "Moan" ->
                (IF Target(expr.t, self) \in DOMAIN kn
                 THEN SetTop(stack, Add(get_value(kn, Target(expr.t, self)), Top(stack), tok))
                 ELSE Panic)
           [] expr.op = "Remembering" ->
                (IF Target(expr.t, self) \in DOMAIN kn
                 THEN Append(stack,
                        Boolean(ValEq(expr.v, get_value(kn, Target(expr.t, self)))))
                 ELSE Panic)
           [] expr.op = "Rend" ->
                (IF Len(stack) >= 2
                 THEN SetTop(Pop(stack), Div(Top(Pop(stack)), Top(stack), tok))
                 ELSE Panic)
           [] expr.op = "Turn" -> SetTop(stack, Neg(Top(stack), tok))
           [] OTHER -> Append(stack, expr.v)

RECURSIVE EvalFrom(_, _, _, _, _, _)
RECURSIVE EvalFrom_forward(_, _, _, _, _, _)
\* the loop run first-to-last: for index in 0..exprs.len()
EvalFrom_forward(kn, self, exprs, index, stack, tok) ==
    IF index = 0 THEN stack
    ELSE EvalFrom_forward(kn, self, exprs, index - 1,
                          eval_expr(kn, self, exprs[Len(exprs) - index + 1], stack, tok), tok)

\* the loop of eval_exprs: for index in (0..exprs.len()).rev()
EvalFrom(kn, self, exprs, index, stack, tok) ==
    IF index = 0 THEN stack
    ELSE EvalFrom(kn, self, exprs, index - 1,
                  eval_expr(kn, self, exprs[index], stack, tok), tok)

\* Spirit::eval_exprs: the popped top of the final stack, or Panic
eval_exprs(kn, self, exprs, tok) ==
    LET stack == EvalFrom(kn, self, exprs, Len(exprs), <<Void>>, tok)
    IN  IF stack = Panic THEN Panic ELSE <<Top(stack)>>

RECURSIVE knowledge_after_eval(_, _, _)
\* the knowledge after eval_exprs: one get_value per Moan and Remembering, in the
\* order of the loop; the other expressions only touch the local stack
knowledge_after_eval(kn, self, exprs) ==
    IF exprs = <<>> THEN kn
    ELSE LET expr == exprs[Len(exprs)]
         IN  knowledge_after_eval(
                 IF expr.op \in {"Moan", "Remembering"} /\ Target(expr.t, self) \in DOMAIN kn
                 THEN knowledge_after_get(kn, Target(expr.t, self))
                 ELSE kn,
                 self, Pop(exprs))

\* Spirit::eval_standalone_expr
eval_standalone_expr(kn, self, expr, tok) ==
    LET stack == eval_expr(kn, self, expr, <<Void>>, tok)
    IN  IF stack = Panic THEN Panic ELSE <<Top(stack)>>

(***************************************************************************)
(* Shared state updates (summon.rs: set_active, set_value).                *)
(***************************************************************************)
\* Notify::notify_waiters: every runner parked on the notifier rechecks its gate
notify_waiters(rs) ==
    [r \in DOMAIN rs |-> IF rs[r].pc = "parked" THEN [rs[r] EXCEPT !.pc = "gate"] ELSE rs[r]]

\* altered_active flipping the stored flag instead of storing the argument
altered_active_flipped(kn, name, active) ==
    IF name \in DOMAIN kn THEN [kn EXCEPT ![name].active = ~@] ELSE kn

\* the knowledge part of set_active: DashMap::alter leaves a missing key alone
altered_active(kn, name, active) ==
    IF name \in DOMAIN kn THEN [kn EXCEPT ![name].active = active] ELSE kn

\* set_active: alter the flag; notify says whether notify_waiters is called
set_active(kn, name, active) ==
    [kn |-> altered_active(kn, name, active), notify |-> active]

\* a write that stores the value in the memory of every entity
set_value_everywhere(kn, name, val) == [n \in DOMAIN kn |-> [kn[n] EXCEPT !.memory = val]]

\* set_value
set_value(kn, name, val) ==
    IF name \in DOMAIN kn THEN [kn EXCEPT ![name].memory = val] ELSE kn

\* a channel that hands out the newest message first
send_message_front(ch, sent) == sent \o ch

\* Spirit::send_message: the messages sent are appended to the unbounded channel
send_message(ch, sent) == ch \o sent

(***************************************************************************)
(* Statement executor (Spirit::exec_stmts, Spirit::exec_stmt).             *)
(* A runner's position in a task is a stack of frames, one per active call *)
(* of exec_stmts: [stmts, i] with i the index of the current statement.    *)
(* A continuation is [frames, pc] with pc one of                           *)
(*   gate    - the activity check before the statement at the top frame    *)
(*   exec    - exec_stmt of the statement at the top frame                 *)
(*   spin    - a ShambleAround over an empty body (loops without awaiting) *)
(*   taskend - perform has returned                                        *)
(***************************************************************************)
Frame(stmts) == [stmts |-> stmts, i |-> 1]
CurrentStmt(frames) == Top(frames).stmts[Top(frames).i]

RECURSIVE Complete(_, _), Return(_, _), Enter(_, _, _)
\* exec_stmts without the check of the task flag after a statement
Complete_unflagged(frames, ta) ==
    IF Top(frames).i = Len(Top(frames).stmts)
    THEN Return(Pop(frames), ta)
    ELSE [frames |-> SetTop(frames, [Top(frames) EXCEPT !.i = @ + 1]), pc |-> "gate"]

\* exec_stmts after exec_stmt returned: break when the task flag is off or the
\* statements are exhausted, else go on to the gate of the next statement
Complete(frames, ta) ==
    IF ~ta \/ Top(frames).i = Len(Top(frames).stmts)
    THEN Return(Pop(frames), ta)
    ELSE [frames |-> SetTop(frames, [Top(frames) EXCEPT !.i = @ + 1]), pc |-> "gate"]

\* exec_stmts has returned to the exec_stmt that called it (the compound
\* statement at the top of frames), or to perform when no frame is left
Return(frames, ta) ==
    IF frames = <<>> THEN [frames |-> <<>>, pc |-> "taskend"]
    ELSE CASE CurrentStmt(frames).op = "ShambleAround" ->
                (IF CurrentStmt(frames).b = <<>>
                 THEN [frames |-> frames, pc |-> "spin"]
                 ELSE Enter(frames, CurrentStmt(frames).b, ta))
           [] CurrentStmt(frames).op = "ShambleUntil" -> [frames |-> frames, pc |-> "exec"]
           [] OTHER -> Complete(frames, ta)

\* a call of exec_stmts(stmts) from the statement at the top of frames
Enter(frames, stmts, ta) ==
    IF stmts = <<>> THEN Return(frames, ta)
    ELSE [frames |-> Append(frames, Frame(stmts)), pc |-> "gate"]

\* result of a panic inside perform: the spawned task dies
Panicked == [frames |-> <<>>, pc |-> "taskend"]

\* a loop that is left when its condition is false and repeated when it is true
shamble_while(cond, frames, stmts, ta) ==
    IF cond = <<Boolean(FALSE)>> THEN Complete(frames, ta)
    ELSE IF cond = <<Boolean(TRUE)>> THEN Enter(frames, stmts, ta)
    ELSE Panicked

\* Stmt::ShambleUntil after one evaluation of the condition: break on true, a call
\* of exec_stmts on the body on false, a panic on anything else
shamble_until(cond, frames, stmts, ta) ==
    IF cond = <<Boolean(TRUE)>> THEN Complete(frames, ta)
    ELSE IF cond = <<Boolean(FALSE)>> THEN Enter(frames, stmts, ta)
    ELSE Panicked

\* Spirit::exec_stmt for the statement stmt at the top of frames.  The result is
\* the new knowledge, whether the notifier was notified, the messages sent, the
\* task flag and the continuation.
exec_stmt(kn, self, frames, ta, stmt, tok) ==
    LET same == [kn |-> kn, notify |-> FALSE, sent |-> <<>>, ta |-> ta,
                 k |-> Complete(frames, ta)]
        value == eval_exprs(kn, self, stmt.e, tok)
        cond == eval_standalone_expr(kn, self, stmt.c, tok)
    IN  CASE stmt.op = "Animate" ->
                [same EXCEPT !.sent = <<MAnimate(Target(stmt.t, self))>>]
          [] stmt.op = "Banish" ->
                [same EXCEPT !.kn = set_active(kn, Target(stmt.t, self), FALSE).kn,
                             !.notify = set_active(kn, Target(stmt.t, self), FALSE).notify]
          [] stmt.op = "Disturb" ->
                [same EXCEPT !.sent = <<MDisturb(Target(stmt.t, self))>>]
          [] stmt.op = "Forget" ->
                [same EXCEPT !.kn = set_value(kn, Target(stmt.t, self), Void)]
          [] stmt.op = "Invoke" ->
                [same EXCEPT !.sent = <<MInvoke(Target(stmt.t, self))>>]
          [] stmt.op = "Remember" ->
                (IF value = Panic THEN [same EXCEPT !.k = Panicked]
                 ELSE [same EXCEPT !.kn = set_value(kn, Target(stmt.t, self), value[1])])
          [] stmt.op = "Say" ->
                (IF value = Panic THEN [same EXCEPT !.k = Panicked]
                 ELSE [same EXCEPT !.sent = <<MSay(value[1])>>])
          [] stmt.op = "ShambleUntil" ->
                [same EXCEPT !.k = shamble_until(cond, frames, stmt.b, ta)]
          [] stmt.op = "ShambleAround" ->
                [same EXCEPT !.k = IF stmt.b = <<>> THEN [frames |-> frames, pc |-> "spin"]
                                   ELSE Enter(frames, stmt.b, ta)]
          [] stmt.op = "Stumble" ->
                [same EXCEPT !.ta = FALSE, !.k = Complete(frames, FALSE)]
          [] OTHER -> \* Taste
                (IF cond = <<Boolean(TRUE)>> THEN [same EXCEPT !.k = Enter(frames, stmt.b, ta)]
                 ELSE IF cond = <<Boolean(FALSE)>>
                      THEN [same EXCEPT !.k = Enter(frames, stmt.b2, ta)]
                      ELSE [same EXCEPT !.k = Panicked])

(***************************************************************************)
(* Startup: Necromancer::initiate up to the spawn of the watchdog and the  *)
(* message_handler, i.e. Ritual::new has summoned every declared entity.   *)
(***************************************************************************)
\* Spirit::summon + tokio::spawn(spirit.unleash(state, candle)): a new runner
\* holding the candle (Arc) created for it
Spirit(name, id) ==
    [name |-> name, candle |-> id, pc |-> "start", order |-> <<>>, ti |-> 1,
     frames |-> <<>>, ta |-> TRUE]

\* DashSet::insert of the new candle: an equal key already in the set is kept
LightCandle(cs, name, id) ==
    IF name \in DOMAIN cs THEN cs ELSE cs @@ (name :> id)

RECURSIVE SeqOf(_)
\* the entities in the iteration order of the EntityList
SeqOf(S) == IF S = {} THEN <<>> ELSE LET x == CHOOSE y \in S : TRUE IN <<x>> \o SeqOf(S \ {x})

\* a state in which every entity starts active
StateFrom_awake(sc) == [n \in DOMAIN sc |-> [memory |-> sc[n].memory, active |-> TRUE]]

\* impl From<I> for State: memory and activity as declared
StateFrom(sc) == [n \in DOMAIN sc |-> [memory |-> sc[n].memory, active |-> sc[n].active]]

\* the state after Ritual::new for one of the scrolls given
Startup(scrolls) ==
    /\ scroll \in scrolls
    /\ knowledge = StateFrom(scroll)
    /\ runners = [i \in 1..Cardinality(DOMAIN scroll) |-> Spirit(SeqOf(DOMAIN scroll)[i], i)]
    /\ candles = [n \in DOMAIN scroll |->
                    CHOOSE i \in 1..Cardinality(DOMAIN scroll) : SeqOf(DOMAIN scroll)[i] = n]
    /\ abort_handles = [i \in 1..Cardinality(DOMAIN scroll) |-> i]
    /\ aborted = {}
    /\ tasks = 1..Cardinality(DOMAIN scroll)
    /\ lock = "free"
    /\ channel = <<>>
    /\ output = <<>>
    /\ ritual_pc = "finished_lock"
    /\ watchdog_pc = "running"
    /\ handler_pc = "received"
    /\ pending = 0
    /\ probe = NoProbe

Init == Startup(Scrolls)

\* the startup that can also pick the long-running Fibonacci scroll
FibonacciInit == Startup(Scrolls \cup {ScrollFibonacci})

(***************************************************************************)
(* Entity runner (Spirit::unleash, Spirit::perform, Spirit::exec_stmts).   *)
(***************************************************************************)
\* the tokio runtime still polls tasks: initiate has not returned
RuntimeAlive == ritual_pc /= "returned"

\* the permutations of 1..n (fastrand::shuffle)
Perms(n) == {p \in [1..n -> 1..n] : \A i, j \in 1..n : p[i] = p[j] => i = j}

\* every species taking its tasks in declaration order
Orders_declared(creature) == {[i \in 1..Len(creature.tasks) |-> i]}

\* every species shuffling its tasks the way the vampire does
Orders_shuffled(creature) == Perms(Len(creature.tasks))

\* the orders in which unleash may perform the tasks of an entity
Orders(creature) ==
    IF creature.species = "Vampire" THEN Perms(Len(creature.tasks))
    ELSE {[i \in 1..Len(creature.tasks) |-> i]}

\* Spirit::unleash, entry: the match on the species
Unleash(r) ==
    /\ RuntimeAlive
    /\ runners[r].pc = "start"
    /\ IF scroll[runners[r].name].species \in {"Demon", "Djinn"}
       THEN runners' = [runners EXCEPT ![r].pc = "done"]
       ELSE \E order \in Orders(scroll[runners[r].name]) :
                runners' = [runners EXCEPT ![r].pc = "unleash", ![r].order = order]
    /\ UNCHANGED <<probe, scroll, knowledge, candles, abort_handles, aborted, tasks, lock,
                   channel, output, ritual_pc, watchdog_pc, handler_pc, pending>>

\* the runner after a step of its task that ended in continuation k
After(rn, k, ta) ==
    IF k.pc = "taskend"
    THEN [rn EXCEPT !.pc = IF scroll[rn.name].species = "Ghost" THEN "sleep" ELSE "unleash",
                    !.ti = @ + 1, !.frames = <<>>, !.ta = ta]
    ELSE [rn EXCEPT !.pc = k.pc, !.frames = k.frames, !.ta = ta]

\* Spirit::unleash, loop: tokio::spawn(perform(task)) for the next task, or return
\* (dropping _candle) when no task is left; perform starts with a fresh RunningTask
Perform(r) ==
    /\ RuntimeAlive
    /\ runners[r].pc = "unleash"
    /\ runners' = [runners EXCEPT ![r] =
            IF runners[r].ti > Len(runners[r].order) THEN [@ EXCEPT !.pc = "done"]
            ELSE After(@, Enter(<<>>,
                        scroll[@.name].tasks[@.order[@.ti]].stmts, TRUE), TRUE)]
    /\ UNCHANGED <<probe, scroll, knowledge, candles, abort_handles, aborted, tasks, lock,
                   channel, output, ritual_pc, watchdog_pc, handler_pc, pending>>

\* the ghost's time::sleep between tasks has elapsed
Sleep(r) ==
    /\ RuntimeAlive
    /\ runners[r].pc = "sleep"
    /\ runners' = [runners EXCEPT ![r].pc = "unleash"]
    /\ UNCHANGED <<probe, scroll, knowledge, candles, abort_handles, aborted, tasks, lock,
                   channel, output, ritual_pc, watchdog_pc, handler_pc, pending>>

\* a gate that lets every runner pass
GateAlwaysOpen(kn, name) == TRUE

\* exec_stmts, the gate: read the entity's active flag
GateOpen(kn, name) == kn[name].active

Gate(r) ==
    /\ RuntimeAlive
    /\ runners[r].pc = "gate"
    /\ runners' = [runners EXCEPT ![r].pc =
            IF GateOpen(knowledge, runners[r].name) THEN "exec" ELSE "notified"]
    /\ UNCHANGED <<probe, scroll, knowledge, candles, abort_handles, aborted, tasks, lock,
                   channel, output, ritual_pc, watchdog_pc, handler_pc, pending>>

\* exec_stmts, the gate: the Notified future is created and awaited
Notified(r) ==
    /\ RuntimeAlive
    /\ runners[r].pc = "notified"
    /\ runners' = [runners EXCEPT ![r].pc = "parked"]
    /\ UNCHANGED <<probe, scroll, knowledge, candles, abort_handles, aborted, tasks, lock,
                   channel, output, ritual_pc, watchdog_pc, handler_pc, pending>>

\* exec_stmts: exec_stmt of the current statement, the task flag check and the
\* yield.  It runs in the poll that passed the gate, so a worker that is in
\* this poll finishes it even when the runtime is shutting down.
\* the Say messages sent so far: those printed and those still in the channel
Said(ch, out) == Len(out) + Cardinality({i \in DOMAIN ch : ch[i].kind = "Say"})

Exec(r) ==
    /\ runners[r].pc = "exec"
    /\ CurrentStmt(runners[r].frames).op = "Say" => Said(channel, output) < MaxSays
    /\ \E tok \in Tokens :
        LET rn == runners[r]
            res == exec_stmt(knowledge, rn.name, rn.frames, rn.ta,
                             CurrentStmt(rn.frames), tok)
            rs == [runners EXCEPT ![r] = After(rn, res.k, res.ta)]
        IN  /\ knowledge' = res.kn
            /\ runners' = IF res.notify THEN notify_waiters(rs) ELSE rs
            /\ channel' = send_message(channel, res.sent)
    /\ UNCHANGED <<probe, scroll, candles, abort_handles, aborted, tasks, lock,
                   output, ritual_pc, watchdog_pc, handler_pc, pending>>

(***************************************************************************)
(* Watchdog (Ritual::watchdog, polled by the watchdog task of initiate).   *)
(***************************************************************************)
\* Arc::strong_count of the candle arc: the clone kept by the candle set plus
\* the clones held by runners that have not returned from unleash
strong_count(rs, cs, arc) ==
    (IF \E n \in DOMAIN cs : cs[n] = arc THEN 1 ELSE 0)
    + Cardinality({r \in DOMAIN rs : rs[r].candle = arc /\ rs[r].pc /= "done"})

\* the watchdog condition without the test of the active flag
watchdog_candles_only(kn, rs, cs) ==
    \A c \in DOMAIN kn : strong_count(rs, cs, cs[c]) <= 1

\* the condition of Ritual::watchdog
watchdog_triggered(kn, rs, cs) ==
    \A c \in DOMAIN kn : ~kn[c].active \/ strong_count(rs, cs, cs[c]) <= 1

\* the handles that the watchdog aborts
abort_all(handles) == {handles[i] : i \in DOMAIN handles}

\* one tick of the watchdog task
watchdog ==
    /\ RuntimeAlive
    /\ watchdog_pc = "running"
    /\ aborted' = IF watchdog_triggered(knowledge, runners, candles)
                  THEN aborted \cup abort_all(abort_handles) ELSE aborted
    /\ UNCHANGED <<probe, scroll, knowledge, runners, candles, abort_handles, tasks, lock,
                   channel, output, ritual_pc, watchdog_pc, handler_pc, pending>>

(***************************************************************************)
(* Message loop (the message_handler task of initiate, Ritual::received,   *)
(* Ritual::summon).                                                        *)
(***************************************************************************)
\* Ritual::received returns the head of the channel
Receiving ==
    /\ RuntimeAlive
    /\ handler_pc = "received"
    /\ channel /= <<>>

\* Ritual::summon up to the await of tasks.read(): the spirit is created, its
\* candle lit, its abort handle pushed and its unleash task spawned
summon(name) ==
    /\ Len(runners) < MaxRunners
    /\ runners' = Append(runners, Spirit(name, Len(runners) + 1))
    /\ candles' = LightCandle(candles, name, Len(runners) + 1)
    /\ abort_handles' = Append(abort_handles, Len(runners) + 1)
    /\ pending' = Len(runners) + 1
    /\ handler_pc' = "summon"

\* creatures.get(&name).unwrap() on an undeclared name: the handler task panics
HandlerPanics ==
    /\ handler_pc' = "dead"
    /\ UNCHANGED <<runners, candles, abort_handles, pending>>

\* the message needs no summon: the loop goes on to receive the next one
HandlerLoops == UNCHANGED <<runners, candles, abort_handles, pending, handler_pc>>

\* a handler that summons a copy for every awakening, whatever the species
Summons_all(kind, species) == TRUE

\* does the handler summon a copy for this message and species
Summons(kind, species) ==
    \/ kind = "Animate" /\ species = "Zombie"
    \/ kind = "Disturb" /\ species = "Ghost"
    \/ kind = "Invoke"

\* Message::Animate(name)
HandleAnimate ==
    /\ Receiving
    /\ Head(channel).kind = "Animate"
    /\ channel' = Tail(channel)
    /\ IF Head(channel).arg \notin Names THEN HandlerPanics
       ELSE IF Summons("Animate", scroll[Head(channel).arg].species)
            THEN summon(Head(channel).arg)
            ELSE HandlerLoops
    /\ UNCHANGED <<probe, scroll, knowledge, aborted, tasks, lock, output, ritual_pc, watchdog_pc>>

\* Message::Disturb(name)
HandleDisturb ==
    /\ Receiving
    /\ Head(channel).kind = "Disturb"
    /\ channel' = Tail(channel)
    /\ IF Head(channel).arg \notin Names THEN HandlerPanics
       ELSE IF Summons("Disturb", scroll[Head(channel).arg].species)
            THEN summon(Head(channel).arg)
            ELSE HandlerLoops
    /\ UNCHANGED <<probe, scroll, knowledge, aborted, tasks, lock, output, ritual_pc, watchdog_pc>>

\* Message::Invoke(name)
HandleInvoke ==
    /\ Receiving
    /\ Head(channel).kind = "Invoke"
    /\ channel' = Tail(channel)
    /\ IF Head(channel).arg \notin Names THEN HandlerPanics
       ELSE IF Summons("Invoke", scroll[Head(channel).arg].species)
            THEN summon(Head(channel).arg)
            ELSE HandlerLoops
    /\ UNCHANGED <<probe, scroll, knowledge, aborted, tasks, lock, output, ritual_pc, watchdog_pc>>

\* Message::Say(value): println!("{}", value)
HandleSay ==
    /\ Receiving
    /\ Head(channel).kind = "Say"
    /\ channel' = Tail(channel)
    /\ output' = Append(output, Display(Head(channel).arg))
    /\ UNCHANGED <<probe, scroll, knowledge, runners, candles, abort_handles, aborted, tasks,
                   lock, ritual_pc, watchdog_pc, handler_pc, pending>>

\* Ritual::summon, tasks.read().await while Ritual::finished holds the write
\* lock: the handler queues up behind the writer
SummonWait ==
    /\ RuntimeAlive
    /\ handler_pc = "summon"
    /\ lock = "write"
    /\ handler_pc' = "summon_queued"
    /\ UNCHANGED <<probe, scroll, knowledge, runners, candles, abort_handles, aborted, tasks,
                   lock, channel, output, ritual_pc, watchdog_pc, pending>>

\* Ritual::summon, tasks.read().await.push(future): with the read lock the
\* future of the spawned runner joins the awaited set
SummonPush ==
    /\ RuntimeAlive
    /\ \/ handler_pc = "summon" /\ lock = "free"
       \/ handler_pc = "summon_queued" /\ lock = "granted"
    /\ tasks' = tasks \cup {pending}
    /\ lock' = "free"
    /\ handler_pc' = "received"
    /\ pending' = 0
    /\ UNCHANGED <<probe, scroll, knowledge, runners, candles, abort_handles, aborted,
                   channel, output, ritual_pc, watchdog_pc>>

(***************************************************************************)
(* Shutdown (Ritual::finished and the end of Necromancer::initiate).       *)
(***************************************************************************)
\* the Abortable<JoinHandle> of runner r resolves: aborted, or unleash returned
Ready(r) == r \in aborted \/ runners[r].pc = "done"

\* the write guard of tasks is dropped: a queued reader is served first
Released == IF handler_pc = "summon_queued" THEN "granted" ELSE "free"

\* Ritual::finished: self.tasks.write().await
FinishedLock ==
    /\ ritual_pc = "finished_lock"
    /\ lock = "free"
    /\ lock' = "write"
    /\ ritual_pc' = "finished_next"
    /\ UNCHANGED <<probe, scroll, knowledge, runners, candles, abort_handles, aborted, tasks,
                   channel, output, watchdog_pc, handler_pc, pending>>

\* Ritual::finished: .next().await under the write guard yields a resolved
\* future (loop again), or None when the set is empty (finished returns)
FinishedNext ==
    /\ ritual_pc = "finished_next"
    /\ \/ /\ tasks = {}
          /\ ritual_pc' = "abort_watchdog"
          /\ UNCHANGED tasks
       \/ \E r \in tasks :
          /\ Ready(r)
          /\ tasks' = tasks \ {r}
          /\ ritual_pc' = "finished_lock"
    /\ lock' = Released
    /\ UNCHANGED <<probe, scroll, knowledge, runners, candles, abort_handles, aborted,
                   channel, output, watchdog_pc, handler_pc, pending>>

\* initiate: watchdog.abort()
AbortWatchdog ==
    /\ ritual_pc = "abort_watchdog"
    /\ watchdog_pc' = "aborted"
    /\ ritual_pc' = "abort_handler"
    /\ UNCHANGED <<probe, scroll, knowledge, runners, candles, abort_handles, aborted, tasks,
                   lock, channel, output, handler_pc, pending>>

\* initiate: message_handler.abort(), then initiate returns
AbortHandler ==
    /\ ritual_pc = "abort_handler"
    /\ handler_pc' = "aborted"
    /\ lock' = IF lock = "granted" THEN "free" ELSE lock
    /\ ritual_pc' = "returned"
    /\ UNCHANGED <<probe, scroll, knowledge, runners, candles, abort_handles, aborted, tasks,
                   channel, output, watchdog_pc, pending>>

(***************************************************************************)
(* Specification.                                                          *)
(***************************************************************************)
Runner(r) == Unleash(r) \/ Perform(r) \/ Sleep(r) \/ Gate(r) \/ Notified(r) \/ Exec(r)

Handler == HandleAnimate \/ HandleDisturb \/ HandleInvoke \/ HandleSay
              \/ SummonWait \/ SummonPush

Shutdown == FinishedLock \/ FinishedNext \/ AbortWatchdog \/ AbortHandler

Next ==
    \/ \E r \in RunnerIds : Unleash(r)
    \/ \E r \in RunnerIds : Perform(r)
    \/ \E r \in RunnerIds : Sleep(r)
    \/ \E r \in RunnerIds : Gate(r)
    \/ \E r \in RunnerIds : Notified(r)
    \/ \E r \in RunnerIds : Exec(r)
    \/ watchdog
    \/ HandleAnimate
    \/ HandleDisturb
    \/ HandleInvoke
    \/ HandleSay
    \/ SummonWait
    \/ SummonPush
    \/ FinishedLock
    \/ FinishedNext
    \/ AbortWatchdog
    \/ AbortHandler

Spec == Init /\ [][Next]_vars

FibonacciSpec == FibonacciInit /\ [][Next]_vars

\* the tokio scheduler polls every task that is ready, and the interval of
\* the watchdog keeps ticking
Fairness ==
    /\ \A r \in 1..MaxRunners : WF_vars(r \in RunnerIds /\ Runner(r))
    /\ WF_vars(watchdog)
    /\ WF_vars(Handler)
    /\ WF_vars(Shutdown)

FairSpec == Spec /\ Fairness

(***************************************************************************)
(* Properties.                                                             *)
(***************************************************************************)
active_of(e) == knowledge[e].active
AllInactive == \A e \in Names : ~active_of(e)
Returned == ritual_pc = "returned"

\* runner r executes a statement in this step
Executes(r) == runners[r].pc = "exec" /\ runners'[r] /= runners[r]

\* runner r is inside a task, at a statement after a Banish of entity e
HasBanished(r, e) ==
    /\ Len(runners[r].frames) = 1
    /\ \E i \in 1..(runners[r].frames[1].i - 1) :
          /\ runners[r].frames[1].stmts[i].op = "Banish"
          /\ Target(runners[r].frames[1].stmts[i].t, runners[r].name) = e

\* C1: a runner executes a statement only at a moment when its entity is active
C1_ExecOnlyWhileActive ==
    [][\A r \in RunnerIds : Executes(r) => active_of(runners[r].name)]_vars

\* C2: when the ritual returns, every Say sent has been printed; the hello world
\* scroll has printed exactly the line Hello World
C2_SayPrintedBeforeReturn ==
    Returned =>
        /\ \A i \in DOMAIN channel : channel[i].kind /= "Say"
        /\ scroll = ScrollHello => output = <<"Hello World">>

\* C3: when the ritual returns, every Invoke sent has been received, and in the
\* invoking scroll (whose only message is its Invoke) the runner spawned for it
\* has joined the awaited set
C3_InvokeServedBeforeReturn ==
    Returned =>
        /\ \A i \in DOMAIN channel : channel[i].kind /= "Invoke"
        /\ scroll = ScrollInvoke => pending = 0

\* the message loop receives Animate of a Zombie or Disturb of a Ghost in this step
Awakens(e) ==
    /\ Receiving
    /\ channel' = Tail(channel)
    /\ \/ Head(channel).kind = "Animate" /\ scroll[e].species = "Zombie"
       \/ Head(channel).kind = "Disturb" /\ scroll[e].species = "Ghost"
    /\ Head(channel).arg = e

\* C4: after the ritual processed Animate of a Zombie or Disturb of a Ghost, the
\* target is active
C4_AwakeningActivates ==
    [][\A e \in Names : Awakens(e) => knowledge'[e].active]_vars

\* C5: the disturbed ghost has said boo and both entities are inactive when the
\* ritual has returned
C5_GhostSaysBoo ==
    (scroll = ScrollGhost /\ Returned) => (output = <<"boo">> /\ AllInactive)

\* C6: an inactive entity (in particular a banished one) becomes active only in
\* the step in which the ritual processes Animate of it as a Zombie or Disturb of
\* it as a Ghost
C6_InactiveUntilAwakened ==
    [][\A e \in Names : (~active_of(e) /\ knowledge'[e].active) => Awakens(e)]_vars

\* the ghost of the mixed scroll has banished the demon, and its Disturb of the
\* demon and its Animate of itself have been processed: the demon is inactive
C6_Witness ==
    /\ scroll = ScrollMix
    /\ \E r \in RunnerIds :
          HasBanished(r, "D") /\ runners[r].frames[1].i = 4 /\ runners[r].pc = "exec"
    /\ channel = <<>>
    /\ ~active_of("D")

\* C7: in the banish-self scroll the runner never executes the statement after
\* its banish, 2 is never printed, and the watchdog aborts and the ritual returns
C7_BanishSelfParks ==
    /\ [](scroll = ScrollBanishSelf =>
            /\ \A i \in DOMAIN output : output[i] /= "2"
            /\ \A r \in RunnerIds :
                 ~(runners[r].pc = "exec" /\ runners[r].frames[1].i = 3))
    /\ (scroll = ScrollBanishSelf) ~> (Returned /\ aborted /= {})

\* the banish-self scroll has printed 1, its runner is parked and the ritual
\* has returned after the watchdog's abort
C7_Witness ==
    /\ scroll = ScrollBanishSelf
    /\ Returned
    /\ aborted /= {}
    /\ output = <<"1">>
    /\ runners[1].pc = "parked"

\* C8: a watchdog tick that aborts aborts every registered runner, and if
\* eventually every entity stays inactive, the runners spawned at startup are
\* aborted or done, watchdog and message loop are cancelled and initiate returns
C8_InactiveTerminates ==
    /\ [][aborted' /= aborted => aborted' = abort_all(abort_handles)]_vars
    /\ (<>[]AllInactive) =>
          <>(/\ Returned
             /\ \A r \in 1..Cardinality(Names) : Ready(r)
             /\ watchdog_pc = "aborted"
             /\ handler_pc = "aborted")

\* every entity is inactive, parked runners were aborted and initiate returned
C8_Witness ==
    /\ AllInactive
    /\ Returned
    /\ \E r \in aborted : runners[r].pc = "parked"

\* an Invoke of e is sent and not yet turned into an awaited runner
InvokeInFlight(e) ==
    \/ \E i \in DOMAIN channel : channel[i] = MInvoke(e)
    \/ pending /= 0 /\ runners[pending].name = e

\* C9: the watchdog aborts only at a tick where every entity is inactive, or has
\* a candle count of at most 1 and no Invoke in flight
C9_AbortOnlyWhenQuiescent ==
    [][aborted' /= aborted =>
        \A e \in Names :
            \/ ~active_of(e)
            \/ /\ strong_count(runners, candles, candles[e]) <= 1
               /\ ~InvokeInFlight(e)]_vars

\* the runners of entity e that have not returned from unleash
LiveRunners(e) == {r \in RunnerIds : runners[r].name = e /\ runners[r].pc /= "done"}

\* C10: the candle count the watchdog reads is the number of live runners plus
\* the reference kept by the candle set
C10_CandlesCountRunners ==
    \A e \in Names :
        strong_count(runners, candles, candles[e]) = 1 + Cardinality(LiveRunners(e))

\* Ritual::finished has returned: initiate is past the wait for the runners
FinishedReturned == ritual_pc \in {"abort_watchdog", "abort_handler", "returned"}

\* C11: once Ritual::finished has returned, every runner ever spawned has
\* finished or been aborted
C11_ReturnsWhenNoRunnerLeft ==
    FinishedReturned => \A r \in RunnerIds : Ready(r)

\* runner r has read its entity's flag as inactive at the gate: it is about to
\* register on the notifier, or is parked on it
Waiting(r) == runners[r].pc \in {"notified", "parked"}

InSummon == handler_pc \in {"summon", "summon_queued"}

\* C13: a summon of the message loop always comes to its end (the push is done,
\* or the loop is cancelled by the shutdown), and in the scroll whose runners
\* never finish the Say sent after the Invoke is still printed
C13_SummonNeverStarves ==
    /\ InSummon ~> ~InSummon
    /\ (scroll = ScrollBlock) ~> (output = <<"x">>)

\* sequence p is a prefix of sequence q
IsPrefix(p, q) == Len(p) <= Len(q) /\ SubSeq(q, 1, Len(p)) = p

\* C14: the lines of the zombie that says 1, 2, 3 are printed in the order in
\* which its runner sent them
C14_SayOrderKept ==
    scroll = ScrollSayOrder => IsPrefix(output, <<"1", "2", "3">>)

\* all three lines of the zombie that says 1, 2, 3 are printed
C14_Witness == scroll = ScrollSayOrder /\ output = <<"1", "2", "3">>

\* runner r executes, in this step, a Stumble that is a statement of its task
\* (not of a nested block)
StumblesAtTop(r) ==
    /\ Executes(r)
    /\ Len(runners[r].frames) = 1
    /\ CurrentStmt(runners[r].frames).op = "Stumble"

C16_NoStatementAfterStumble ==
    [][\A r \in RunnerIds :
          (Executes(r) /\ CurrentStmt(runners[r].frames).op /= "ShambleUntil")
              => runners[r].ta]_vars

\* C17: the zombie that stumbles inside its ShambleAround leaves the loop and
\* reaches its second task; the runners whose ShambleAround has no Stumble never
\* leave their first task
C17_StumbleExitsShambleAround ==
    /\ (scroll = ScrollShamble) ~> (runners[1].ti >= 2)
    /\ [](scroll = ScrollBlock =>
            \A r \in RunnerIds : runners[r].ti = 1 /\ runners[r].pc /= "done")

\* C18: the runner of the zombie that tastes a non-Boolean executes no further
\* statement: it sends nothing, nothing is printed, and it starts no later task
C18_NonBooleanKillsRunner ==
    scroll = ScrollTaste =>
        /\ channel = <<>>
        /\ output = <<>>
        /\ runners[1].ti > 1 => runners[1].frames = <<>>

\* C19: statements that name an undeclared entity never stop the message loop
\* and never create a shared-state entry for the unknown name
C19_UnknownTargetKillsOnlyRunner ==
    /\ handler_pc /= "dead"
    /\ DOMAIN knowledge = Names

\* runner r belongs to a Zombie and has entered the loop of unleash
ZombieUnleashed(r) ==
    scroll[runners[r].name].species = "Zombie" /\ runners[r].pc /= "start"

TaskUnderWay(r) == scroll[runners[r].name].tasks[runners[r].order[runners[r].ti]]

\* C21: a runner is only ever inside a task that is declared active
C21_OnlyActiveTasksPerformed ==
    \A r \in RunnerIds : runners[r].frames /= <<>> => TaskUnderWay(r).active

\* runner r belongs to a Vampire
IsVampire(r) == scroll[runners[r].name].species = "Vampire"

C23_DemonPerformsEveryTask ==
    \A r \in RunnerIds :
        (scroll[runners[r].name].species = "Demon" /\ runners[r].pc = "done") =>
            runners[r].ti > Len(scroll[runners[r].name].tasks)

(***************************************************************************)
(* The Value operations and the evaluator applied to drawn inputs          *)
(* (value.rs: Add, Div, Neg; summon.rs: eval_exprs, eval_standalone_expr). *)
(* The knowledge is the one of ScrollInvoke: W remembers 40, Z is Void.    *)
(***************************************************************************)
MaxExprs == 3

\* i64 contents of Value::Integer around zero and at both ends of the range
ProbeInts == {IntMin, IntMin + 1, -7, -2, -1, 0, 1, 2, 7, IntMax - 1, IntMax}

\* values of every variant of Value
ProbeValues ==
    {Integer(n) : n \in ProbeInts}
        \cup {String(""), String("ab"), Boolean(TRUE), Boolean(FALSE), Void}
        \cup {corrupted(tok) : tok \in Tokens}

\* expressions of every variant of Expr, their targets declared in ScrollInvoke
ProbeExprs ==
    {EMoan(None), EMoan("W"), ERemembering(None, Integer(40)), ERemembering("W", Void),
     ERend, ETurn, EValue(Integer(2)), EValue(Integer(7)), EValue(Integer(0)),
     EValue(String("ab"))}

\* the non-empty Vec<Expr> of up to MaxExprs expressions
ProbeExprSeqs == UNION {[1..n -> ProbeExprs] : n \in 1..MaxExprs}

ValueInit == Init /\ scroll = ScrollInvoke

\* self + other
ProbeAdd ==
    /\ probe = NoProbe
    /\ \E a \in ProbeValues, b \in ProbeValues, tok \in Tokens :
           /\ probe' = [op |-> "Add", a |-> a, b |-> b, tok |-> tok, out |-> Add(a, b, tok)]
           /\ UNCHANGED ritual_vars

\* self / other
ProbeDiv ==
    /\ probe = NoProbe
    /\ \E a \in ProbeValues, b \in ProbeValues, tok \in Tokens :
           /\ probe' = [op |-> "Div", a |-> a, b |-> b, tok |-> tok, out |-> Div(a, b, tok)]
           /\ UNCHANGED ritual_vars

\* -self
ProbeNeg ==
    /\ probe = NoProbe
    /\ \E a \in ProbeValues, tok \in Tokens :
           /\ probe' = [op |-> "Neg", a |-> a, tok |-> tok, out |-> Neg(a, tok)]
           /\ UNCHANGED ritual_vars

\* -(-self): the negation applied to the outcome of the negation before
ProbeNegAgain ==
    /\ probe.op = "Neg"
    /\ \E tok \in Tokens :
        probe' = [op |-> "NegNeg", a |-> probe.a, tok |-> tok, out |-> Neg(probe.out, tok)]
    /\ UNCHANGED ritual_vars

\* self == other
ProbeEq ==
    /\ probe = NoProbe
    /\ \E a \in ProbeValues, b \in ProbeValues :
           /\ probe' = [op |-> "Eq", a |-> a, b |-> b, out |-> ValEq(a, b)]
           /\ UNCHANGED ritual_vars

\* the species and the closing spells the entity parser accepts
SpeciesNames == {"Zombie", "Ghost", "Vampire", "Demon", "Djinn"}
Spells == {"animate", "bind", "disturb"}

\* impl Parse for Entity: the active flag of a parsed entity
ProbeActive ==
    /\ probe = NoProbe
    /\ \E species \in SpeciesNames, spell \in Spells :
           /\ probe' = [op |-> "Active", species |-> species, spell |-> spell,
                        out |-> ParseActive(species, spell)]
           /\ UNCHANGED ritual_vars

\* Spirit::eval_exprs called by the spirit of entity self
ProbeEval ==
    /\ probe = NoProbe
    /\ \E self \in DOMAIN scroll, exprs \in ProbeExprSeqs, tok \in Tokens :
           /\ probe' = [op |-> "Eval", self |-> self, exprs |-> exprs, tok |-> tok,
                        out |-> eval_exprs(knowledge, self, exprs, tok)]
           /\ knowledge' = knowledge_after_eval(knowledge, self, exprs)
           /\ UNCHANGED <<scroll, runners, candles, abort_handles, aborted, tasks, lock,
                          channel, output, ritual_pc, watchdog_pc, handler_pc, pending>>

\* Spirit::eval_standalone_expr called by the spirit of entity self
ProbeCond ==
    /\ probe = NoProbe
    /\ \E self \in DOMAIN scroll, expr \in ProbeExprs, tok \in Tokens :
           /\ probe' = [op |-> "Cond", self |-> self, exprs |-> <<expr>>, tok |-> tok,
                        out |-> eval_standalone_expr(knowledge, self, expr, tok)]
           /\ knowledge' = knowledge_after_eval(knowledge, self, <<expr>>)
           /\ UNCHANGED <<scroll, runners, candles, abort_handles, aborted, tasks, lock,
                          channel, output, ritual_pc, watchdog_pc, handler_pc, pending>>

ValueNext ==
    \/ ProbeAdd
    \/ ProbeDiv
    \/ ProbeNeg
    \/ ProbeNegAgain
    \/ ProbeEq
    \/ ProbeActive
    \/ ProbeEval
    \/ ProbeCond

ValueSpec == ValueInit /\ [][ValueNext]_vars

\* the stack the claimed rules build, or <<>> where they name no stack: starting
\* from [Void], the expressions after the first are processed before the first
RECURSIVE StackByRules(_, _, _, _)
StackByRules(kn, self, exprs, tok) ==
    IF exprs = <<>> THEN <<Void>>
    ELSE LET below == StackByRules(kn, self, Tail(exprs), tok)
             expr  == Head(exprs)
             mem   == kn[Target(expr.t, self)].memory
         IN  IF below = <<>> THEN <<>>
             ELSE CASE expr.op = "Value" -> below \o <<expr.v>>
                    [] expr.op = "Moan" ->
                        SubSeq(below, 1, Len(below) - 1) \o <<Add(mem, below[Len(below)], tok)>>
                    [] expr.op = "Remembering" -> below \o <<Boolean(mem = expr.v)>>
                    [] expr.op = "Rend" ->
                        (IF Len(below) < 2 THEN <<>>
                         ELSE SubSeq(below, 1, Len(below) - 2)
                                \o <<Div(below[Len(below) - 1], below[Len(below)], tok)>>)
                    [] OTHER ->
                        SubSeq(below, 1, Len(below) - 1) \o <<Neg(below[Len(below)], tok)>>

C25_EvaluationNeverFails ==
    probe.op \in {"Eval", "Cond"} => probe.out /= Panic

\* C26: evaluating expressions changes neither the memory nor the active flag of
\* any entity: the knowledge after eval_exprs or eval_standalone_expr is the
\* knowledge before it.
C26_EvaluationLeavesKnowledge ==
    [][probe'.op \in {"Eval", "Cond"} => knowledge' = knowledge]_vars

C26_Witness ==
    /\ probe.op = "Eval"
    /\ probe.exprs = <<ERemembering("W", Void), EMoan(None), ETurn>>
    /\ probe.self = "W"
    /\ knowledge["W"] = [active |-> TRUE, memory |-> Integer(40)]

\* C27: Void is neutral for the addition on both sides and for every variant:
\* Void + v == v and v + Void == v under the equality of Value.
C27_VoidIsNeutral ==
    probe.op = "Add" =>
        /\ probe.a = Void => ValEq(probe.out, probe.b)
        /\ probe.b = Void => ValEq(probe.out, probe.a)

C27_Witness ==
    /\ probe.op = "Add"
    /\ probe.a.tag = "Evil"
    /\ probe.b = Void
    /\ probe.out = probe.a

\* C28: Integer(a) / Integer(b) is Integer(q), q the integer quotient of a by b,
\* for every non-zero b, and an Infernal value for b = 0; no pair with a non-zero
\* b yields Infernal.
C28_DivisionIsQuotient ==
    (probe.op = "Div" /\ probe.a.tag = "Integer" /\ probe.b.tag = "Integer") =>
        IF probe.b.v = 0 THEN probe.out.tag = "Evil"
        ELSE probe.out = Integer(TruncDiv(probe.a.v, probe.b.v))

\* C29: negating Integer(n) twice gives Integer(n) again, for every n that a
\* Value::Integer can hold.
C29_DoubleNegation ==
    (probe.op = "NegNeg" /\ probe.a.tag = "Integer") => probe.out = probe.a

\* C30: Integer(n) + Integer(m) is Integer(n + m), the mathematical sum, and
\* never an Infernal value, for all n and m that Value::Integer can hold.
C30_AdditionNeverOverflows ==
    (probe.op = "Add" /\ probe.a.tag = "Integer" /\ probe.b.tag = "Integer") =>
        probe.out = Integer(probe.a.v + probe.b.v)

\* C31: the equality of Value is structural for values that are not Infernal, and
\* a comparison with an Infernal value on either side is false, also the
\* comparison of an Infernal value with itself.
C31_InfernalEqualsNothing ==
    probe.op = "Eq" =>
        IF probe.a.tag = "Evil" \/ probe.b.tag = "Evil"
        THEN probe.out = FALSE
        ELSE probe.out = (probe.a = probe.b)

\* C32 as stated: a Zombie is active only with animate, a Ghost only with disturb,
\* and a Vampire, a Demon and a Djinn are active with each of animate, disturb
\* and bind.
C32_ActiveWithAnySpell ==
    probe.op = "Active" =>
        probe.out =
            [Zombie  |-> [animate |-> TRUE,  disturb |-> FALSE, bind |-> FALSE],
             Ghost   |-> [animate |-> FALSE, disturb |-> TRUE,  bind |-> FALSE],
             Vampire |-> [animate |-> TRUE,  disturb |-> TRUE,  bind |-> TRUE],
             Demon   |-> [animate |-> TRUE,  disturb |-> TRUE,  bind |-> TRUE],
             Djinn   |-> [animate |-> TRUE,  disturb |-> TRUE,  bind |-> TRUE]
            ][probe.species][probe.spell]

\* C32 amended: a Zombie is active only with animate, a Ghost only with disturb,
\* and a Vampire, a Demon and a Djinn are active only with bind.
C32_ActiveWithOwnSpell ==
    probe.op = "Active" =>
        probe.out =
            [Zombie  |-> [animate |-> TRUE,  disturb |-> FALSE, bind |-> FALSE],
             Ghost   |-> [animate |-> FALSE, disturb |-> TRUE,  bind |-> FALSE],
             Vampire |-> [animate |-> FALSE, disturb |-> FALSE, bind |-> TRUE],
             Demon   |-> [animate |-> FALSE, disturb |-> FALSE, bind |-> TRUE],
             Djinn   |-> [animate |-> FALSE, disturb |-> FALSE, bind |-> TRUE]
            ][probe.species][probe.spell]

C32_Witness ==
    probe.op = "Active" /\ probe.species = "Vampire" /\ probe.spell = "animate" /\ ~probe.out

Ignores(e) ==
    /\ Receiving
    /\ channel' = Tail(channel)
    /\ \/ Head(channel).kind = "Animate" /\ scroll[e].species /= "Zombie"
       \/ Head(channel).kind = "Disturb" /\ scroll[e].species /= "Ghost"
    /\ Head(channel).arg = e

\* C34: processing Animate of an entity that is no Zombie, or Disturb of an entity
\* that is no Ghost, is a no-op: no runner is spawned, no candle count changes and
\* the memory and the active flag of every entity stay as they are.
C34_ForeignAwakeningIsNoOp ==
    [][\A e \in Names :
          Ignores(e) =>
              /\ runners' = runners
              /\ candles' = candles
              /\ abort_handles' = abort_handles
              /\ \A n \in Names :
                    strong_count(runners', candles', candles'[n])
                        = strong_count(runners, candles, candles[n])
              /\ knowledge' = knowledge]_vars

C34_Witness ==
    /\ scroll = ScrollMix
    /\ aborted = {}
    /\ \E r \in RunnerIds : runners[r].name = "H" /\ runners[r].pc = "done"
    /\ channel = <<>>
    /\ handler_pc = "received"
    /\ Len(runners) = 2

\* C35: processing Animate of a Zombie or Disturb of a Ghost spawns a new copy only
\* if the target is inactive at that moment; for a target that is active already
\* no runner is spawned.
C35_AwakensOnlyInactive ==
    [][\A e \in Names : (Awakens(e) /\ active_of(e)) => runners' = runners]_vars

\* Ritual::new has returned and no spawned runner has been polled yet
StartedUp ==
    /\ \A r \in RunnerIds : runners[r].pc = "start"
    /\ channel = <<>>
    /\ output = <<>>

\* C36: after startup the shared state holds for every declared entity its
\* declared memory and its declared activity, and exactly one runner has been
\* spawned for it (also for an entity that starts inactive); no runner exists for
\* an undeclared name.
C36_StartupMirrorsScroll ==
    StartedUp =>
        /\ DOMAIN knowledge = DOMAIN scroll
        /\ \A e \in DOMAIN scroll :
              /\ knowledge[e].memory = scroll[e].memory
              /\ knowledge[e].active = scroll[e].active
              /\ Cardinality({r \in RunnerIds : runners[r].name = e}) = 1
        /\ \A r \in RunnerIds : runners[r].name \in DOMAIN scroll

C36_Witness ==
    /\ StartedUp
    /\ scroll = ScrollGhost
    /\ ~knowledge["G"].active
    /\ \E r \in RunnerIds : runners[r].name = "G"
    /\ ritual_pc = "finished_next"

\* runner r is about to evaluate the condition of a ShambleUntil
AtShambleUntil(r) ==
    /\ runners[r].pc = "exec"
    /\ CurrentStmt(runners[r].frames).op = "ShambleUntil"
    /\ CurrentStmt(runners[r].frames).c.op = "Remembering"

\* the value of that condition in the current shared state
Remembers(r) ==
    knowledge[Target(CurrentStmt(runners[r].frames).c.t, runners[r].name)].memory
        = CurrentStmt(runners[r].frames).c.v

\* runner r comes back from the body to the ShambleUntil it was called from
BackFromBody(r) ==
    /\ Len(runners[r].frames) >= 2
    /\ runners'[r].frames = SubSeq(runners[r].frames, 1, Len(runners[r].frames) - 1)
    /\ CurrentStmt(runners'[r].frames).op = "ShambleUntil"

\* C37: ShambleUntil evaluates its condition before every iteration: on true the
\* loop is left and the body is not entered, on false the body is entered once and
\* the condition is evaluated again when the body returns; a loop whose condition
\* is true at entry never executes its body.
C37_ShambleUntilTestsFirst ==
    /\ [][\A r \in RunnerIds :
            (AtShambleUntil(r) /\ runners'[r] /= runners[r]) =>
                IF Remembers(r)
                THEN Len(runners'[r].frames) <= Len(runners[r].frames)
                ELSE /\ runners'[r].frames =
                          Append(runners[r].frames,
                                 [stmts |-> CurrentStmt(runners[r].frames).b, i |-> 1])
                     /\ runners'[r].pc = "gate"]_vars
    /\ [][\A r \in RunnerIds : BackFromBody(r) => runners'[r].pc = "exec"]_vars
    /\ [](scroll = ScrollUntilTrue =>
            /\ \A i \in DOMAIN channel : channel[i] /= MSay(String("body"))
            /\ \A i \in DOMAIN output : output[i] /= "body")

C37_Witness ==
    /\ scroll = ScrollUntilTrue
    /\ output = <<"left">>
    /\ runners[1].pc = "done"

\* runner r executes the Remember or Forget statement it stands at
Memorizes(r) ==
    /\ runners[r].pc = "exec"
    /\ CurrentStmt(runners[r].frames).op \in {"Remember", "Forget"}
    /\ Target(CurrentStmt(runners[r].frames).t, runners[r].name) \in Names
    /\ runners'[r] /= runners[r]

\* C38: Remember(t, exprs) and Forget(t) change only the memory of t, to the
\* evaluated value and to Void, whatever t remembered before: the memory of every
\* other entity, every active flag, the runner set and the channel stay as they
\* are.
C38_MemoryWritesOnlyTarget ==
    [][\A r \in RunnerIds :
          Memorizes(r) =>
              LET stmt == CurrentStmt(runners[r].frames)
                  t == Target(stmt.t, runners[r].name)
              IN  /\ \A n \in Names :
                        /\ knowledge'[n].active = knowledge[n].active
                        /\ n /= t => knowledge'[n].memory = knowledge[n].memory
                  /\ IF stmt.op = "Forget" THEN knowledge'[t].memory = Void
                     ELSE \E tok \in Tokens :
                            \/ eval_exprs(knowledge, runners[r].name, stmt.e, tok) = Panic
                                 /\ knowledge'[t].memory = knowledge[t].memory
                            \/ eval_exprs(knowledge, runners[r].name, stmt.e, tok)
                                 = <<knowledge'[t].memory>>
                  /\ channel' = channel
                  /\ Len(runners') = Len(runners)
                  /\ \A q \in RunnerIds : q /= r => runners'[q] = runners[q]]_vars

C38_Witness ==
    /\ scroll = ScrollFibonacci
    /\ knowledge["Zombie1"].memory = Integer(2)
    /\ knowledge["Zombie2"].memory = Integer(1)
    /\ knowledge["F"].memory = Integer(0)

\* C39: once the watchdog has aborted the runners no runner executes a further
\* statement: an aborted runner makes no step of its task list, nothing is
\* written to the memory or the active flag of an entity, and no message is sent.
C39_AbortStopsRunners ==
    [][aborted /= {} =>
          /\ \A r \in aborted : runners[r].pc = "exec" => runners'[r] = runners[r]
          /\ knowledge' = knowledge
          /\ Len(channel') <= Len(channel)]_vars

\* the runner that Ritual::new spawned for entity e
StartupRunner(e) == CHOOSE r \in 1..Cardinality(Names) : runners[r].name = e

\* runner r has not yet performed all tasks of its entity
TaskListUnfinished(r) == runners[r].ti <= Len(scroll[runners[r].name].tasks)

\* C40: while some entity is active and the runner spawned for it at startup has
\* not yet finished its task list, no watchdog tick aborts the runners.
C40_NoAbortWhileStartupRunnerWorks ==
    [][aborted' /= aborted =>
          \A e \in Names : ~(active_of(e) /\ TaskListUnfinished(StartupRunner(e)))]_vars

====
